---- MODULE Spec2Model ----
(***************************************************************************)
(* Model of the coverage service in src/main.py: the KMZ loader            *)
(* (CoverageChecker.load_kmz_manually / parse_coords_string), the index    *)
(* partition done by CoverageChecker.__init__, the two-pass query          *)
(* CoverageChecker.check_point, the module-level start-up that leaves      *)
(* checker = None when loading fails, and the two HTTP handlers.           *)
(*                                                                         *)
(* Geography.  Longitudes are counted in grid units of 1000 m of EPSG:3857 *)
(* easting (0.0089831528 degrees); latitudes in the same unit, counted     *)
(* from 60N.  ProjX / ProjY are the EPSG:3857 coordinates in metres.       *)
(*                                                                         *)
(* Text.  A coordinate string is kept as the list of its whitespace        *)
(* separated tuples, each tuple as the list of its comma separated parts,  *)
(* each part being the text of the component ("2", "x", ...).              *)
(***************************************************************************)
EXTENDS Integers, Sequences, FiniteSets, TLC

VARIABLES archive, apiKey, pc, i, features, tmpDir, checker, polygons,
          points, request, response, calls

vars == <<archive, apiKey, pc, i, features, tmpDir, checker, polygons,
          points, request, response, calls>>

(***************************************************************************)
(* Bounds of the model.                                                    *)
(***************************************************************************)
MaxPlacemarks == 3
MaxCalls == 2

(***************************************************************************)
(* Configuration (src/main.py lines 17-19).                                *)
(***************************************************************************)
COVERAGE_RADIUS_KM == 5

(***************************************************************************)
(* float(): the numbers the component texts of the model denote.  A text   *)
(* outside the domain makes float() raise ValueError.                      *)
(***************************************************************************)
FloatOf == [t \in {"0", "1", "2", "3", "4", "5", "6"} |->
              CASE t = "0" -> 0 [] t = "1" -> 1 [] t = "2" -> 2 [] t = "3" -> 3
                [] t = "4" -> 4 [] t = "5" -> 5 [] t = "6" -> 6]

IsFloat(t) == t \in DOMAIN FloatOf

(***************************************************************************)
(* parse_coords_string: tuples with fewer than two parts are passed over;  *)
(* float() is applied to the first two parts of every other tuple and its  *)
(* ValueError is not caught here.  The result is [raised, coords].         *)
(***************************************************************************)
RECURSIVE parse_coords_string(_)
parse_coords_string(coord_str) ==
  IF coord_str = << >> THEN [raised |-> FALSE, coords |-> << >>]
  ELSE LET parts == Head(coord_str)
           rest  == parse_coords_string(Tail(coord_str))
       IN  IF Len(parts) >= 2
           THEN IF IsFloat(parts[1]) /\ IsFloat(parts[2])
                THEN IF rest.raised THEN rest
                     ELSE [raised |-> FALSE,
                           coords |-> <<(<<FloatOf[parts[1]], FloatOf[parts[2]]>>)>>
                                      \o rest.coords]
                ELSE [raised |-> TRUE, coords |-> << >>]
           ELSE rest

(***************************************************************************)
(* Geometry values.  NoGeometry is Python's None.                          *)
(***************************************************************************)
NoGeometry == [type |-> "None", coords |-> << >>]
Point(c)   == [type |-> "Point", coords |-> <<c>>]
Polygon(cs) == [type |-> "Polygon", coords |-> cs]

(***************************************************************************)
(* The body of the try block for one placemark (lines 69-92).  A placemark *)
(* is [name, description, point, polygon]; each field is << >> when the    *)
(* tag is absent and <<content>> when it is present.  The result is        *)
(* "raise" (an exception left the try block), "none" (no geometry) or      *)
(* "feature" with the record appended to features.                         *)
(***************************************************************************)
ParsePlacemark(p) ==
  LET name == IF p.name # << >> THEN p.name[1] ELSE "Unknown"
      desc == IF p.description # << >> THEN p.description[1] ELSE ""
      pt   == IF p.point # << >> THEN parse_coords_string(p.point[1])
              ELSE [raised |-> FALSE, coords |-> << >>]
      geom1 == IF p.point # << >> /\ pt.coords # << >>
               THEN Point(pt.coords[1]) ELSE NoGeometry
      pg   == IF p.polygon # << >> THEN parse_coords_string(p.polygon[1])
              ELSE [raised |-> FALSE, coords |-> << >>]
      geom2 == IF p.polygon # << >> /\ Len(pg.coords) >= 3
               THEN Polygon(pg.coords) ELSE geom1
  IN  IF pt.raised \/ pg.raised THEN [kind |-> "raise"]
      ELSE IF geom2.type = "None" THEN [kind |-> "none"]
      ELSE [kind |-> "feature",
            feature |-> [name |-> name, description |-> desc, geometry |-> geom2]]

(***************************************************************************)
(* The loop over the placemarks (lines 67-94): the cursor after one        *)
(* iteration.  Both the normal end of the body and "except Exception:      *)
(* continue" go on with the next placemark.                                *)
(***************************************************************************)
AfterPlacemark_Break(idx, kind, n) == IF kind = "raise" THEN n + 1 ELSE idx + 1

AfterPlacemark(idx, kind, n) == idx + 1

(***************************************************************************)
(* tempfile.TemporaryDirectory as a context manager (line 52): whether the *)
(* directory exists after the with block is left by "return", by           *)
(* "fallthrough" or by "raise".  __exit__ removes it in every case.        *)
(***************************************************************************)
TempDirAfterWith_NoFinally(exists, how) == IF how = "raise" THEN exists ELSE FALSE

TempDirAfterWith(exists, how) == FALSE

(***************************************************************************)
(* gpd.GeoDataFrame(features): the rows carry the RangeIndex labels        *)
(* 0 .. n-1 (lines 96-98).  A boolean-mask selection (lines 34-35) keeps   *)
(* the selected rows, in order, together with their labels.                *)
(***************************************************************************)
GeoDataFrame(feats) ==
  [k \in 1..Len(feats) |->
     [label |-> k - 1, name |-> feats[k].name,
      description |-> feats[k].description, geometry |-> feats[k].geometry]]

IsPolygonRow(r) == r.geometry.type \in {"Polygon", "MultiPolygon"}
IsPointRow(r)   == r.geometry.type \in {"Point", "MultiPoint"}

InitPolygons(gdf) == IF gdf = << >> THEN << >> ELSE SelectSeq(gdf, IsPolygonRow)
InitPoints(gdf)   == IF gdf = << >> THEN << >> ELSE SelectSeq(gdf, IsPointRow)

(***************************************************************************)
(* The archives of the model.  An archive is the file on disk: missing, no *)
(* zip file, a zip without a .kml member, a zip whose .kml member cannot   *)
(* be extracted, or a zip whose first .kml member holds the placemarks doc.*)
(***************************************************************************)
Tower1 == [name |-> <<"Tower1">>, description |-> <<"mast">>,
           point |-> << <<(<<"0", "1", "0">>)>> >>, polygon |-> << >>]
Tower2 == [name |-> << >>, description |-> << >>,
           point |-> << <<(<<"4", "1">>), (<<"6", "1">>)>> >>, polygon |-> << >>]
ZoneA  == [name |-> <<"ZoneA">>, description |-> << >>, point |-> << >>,
           polygon |-> << <<(<<"2", "0">>), (<<"4", "0">>), (<<"5">>),
                            (<<"4", "2">>), (<<"2", "2">>)>> >>]
ZoneB  == [name |-> <<"ZoneB">>, description |-> << >>, point |-> << >>,
           polygon |-> << <<(<<"0", "0">>), (<<"4", "0">>), (<<"4", "2">>),
                            (<<"0", "2">>), (<<"0", "0">>)>> >>]
ZoneC  == [name |-> <<"ZoneC">>, description |-> << >>, point |-> << >>,
           polygon |-> << <<(<<"x", "0">>), (<<"4", "0">>), (<<"6", "0">>),
                            (<<"6", "2">>), (<<"4", "2">>)>> >>]
Sliver == [name |-> <<"Sliver">>, description |-> << >>, point |-> << >>,
           polygon |-> << <<(<<"0", "0">>), (<<"4", "0">>)>> >>]

PlacemarkPool == {Tower1, Tower2, ZoneA, ZoneB, ZoneC, Sliver}

Injective(s) == \A a, b \in 1..Len(s) : s[a] = s[b] => a = b

Documents(pool, n) ==
  UNION {{s \in [1..k -> pool] : Injective(s)} : k \in 0..n}

Archives(pool, n) ==
  {[kind |-> k, doc |-> << >>] : k \in {"missing", "corrupt", "nokml", "badmember"}}
  \cup {[kind |-> "ok", doc |-> d] : d \in Documents(pool, n)}

(***************************************************************************)
(* Start-up (lines 138-142) running CoverageChecker.__init__ (25-36) and   *)
(* load_kmz_manually (47-98).  pc is the position of the import of the     *)
(* module; checker is FALSE for Python's None.                             *)
(***************************************************************************)
LoadFailed ==
  /\ checker' = FALSE
  /\ pc' = "serving"
  /\ UNCHANGED <<polygons, points>>

LoadReturned(feats) ==
  /\ polygons' = InitPolygons(GeoDataFrame(feats))
  /\ points' = InitPoints(GeoDataFrame(feats))
  /\ checker' = TRUE
  /\ pc' = "serving"

LoadStart ==
  /\ pc = "start"
  /\ \/ /\ archive.kind = "missing"
        /\ LoadFailed
        /\ UNCHANGED tmpDir
     \/ /\ archive.kind # "missing"
        /\ tmpDir' = TRUE
        /\ pc' = "tempdir"
        /\ UNCHANGED <<checker, polygons, points>>
  /\ UNCHANGED <<archive, apiKey, i, features, request, response, calls>>

OpenZip ==
  /\ pc = "tempdir"
  /\ \/ /\ archive.kind = "corrupt"
        /\ tmpDir' = TempDirAfterWith(tmpDir, "raise")
        /\ LoadFailed
     \/ /\ archive.kind # "corrupt"
        /\ pc' = "opened"
        /\ UNCHANGED <<tmpDir, checker, polygons, points>>
  /\ UNCHANGED <<archive, apiKey, i, features, request, response, calls>>

ExtractKml ==
  /\ pc = "opened"
  /\ \/ /\ archive.kind = "nokml"
        /\ tmpDir' = TempDirAfterWith(tmpDir, "return")
        /\ LoadReturned(<< >>)
        /\ UNCHANGED i
     \/ /\ archive.kind = "badmember"
        /\ tmpDir' = TempDirAfterWith(tmpDir, "raise")
        /\ LoadFailed
        /\ UNCHANGED i
     \/ /\ archive.kind = "ok"
        /\ pc' = "parsing"
        /\ i' = 1
        /\ UNCHANGED <<tmpDir, checker, polygons, points>>
  /\ UNCHANGED <<archive, apiKey, features, request, response, calls>>

ParseNext ==
  /\ pc = "parsing"
  /\ i <= Len(archive.doc)
  /\ LET r == ParsePlacemark(archive.doc[i])
     IN  /\ features' = IF r.kind = "feature" THEN Append(features, r.feature)
                        ELSE features
         /\ i' = AfterPlacemark(i, r.kind, Len(archive.doc))
  /\ UNCHANGED <<archive, apiKey, pc, tmpDir, checker, polygons, points,
                 request, response, calls>>

FinishLoad ==
  /\ pc = "parsing"
  /\ i > Len(archive.doc)
  /\ tmpDir' = TempDirAfterWith(tmpDir, "fallthrough")
  /\ LoadReturned(features)
  /\ UNCHANGED <<archive, apiKey, i, features, request, response, calls>>

(***************************************************************************)
(* EPSG:4326 -> EPSG:3857 (to_crs, lines 114-115), in metres: the easting  *)
(* of a longitude and the northing of a latitude, the latter relative to   *)
(* the northing of 60N and rounded to the metre.                           *)
(***************************************************************************)
ProjX(lon) == 1000 * lon

Northing == <<2000, 4001, 6002, 8004, 10007, 12010, 14013>>

ProjY(lat) == IF lat = 0 THEN 0 ELSE Northing[lat]

(***************************************************************************)
(* Series.distance (line 116), squared, in square metres, and the radius   *)
(* test "distances <= radius_meters" (lines 118-119) on the squares.       *)
(***************************************************************************)
Distance2(c, lat, lon) ==
  (ProjX(c[1]) - ProjX(lon)) * (ProjX(c[1]) - ProjX(lon))
  + (ProjY(c[2]) - ProjY(lat)) * (ProjY(c[2]) - ProjY(lat))

radius_meters == COVERAGE_RADIUS_KM * 1000

Nearby(d2) == d2 <= radius_meters * radius_meters

(***************************************************************************)
(* round(dist / 1000, 2) (line 127), in hundredths of a kilometre.         *)
(***************************************************************************)
RoundKm(d2) ==
  CHOOSE k \in 0..(100 * COVERAGE_RADIUS_KM) :
    /\ (k = 0 \/ (10 * k - 5) * (10 * k - 5) <= d2)
    /\ d2 < (10 * k + 5) * (10 * k + 5)

(***************************************************************************)
(* shapely: Polygon(coords) closes the ring; polygon.contains(point) holds *)
(* for the points of the interior, not for those of the boundary.          *)
(***************************************************************************)
ClosedRing(cs) == IF cs[1] = cs[Len(cs)] THEN cs ELSE Append(cs, cs[1])

OnSegment(p, a, b) ==
  /\ (b[1] - a[1]) * (p[2] - a[2]) = (b[2] - a[2]) * (p[1] - a[1])
  /\ (a[1] <= p[1] /\ p[1] <= b[1]) \/ (b[1] <= p[1] /\ p[1] <= a[1])
  /\ (a[2] <= p[2] /\ p[2] <= b[2]) \/ (b[2] <= p[2] /\ p[2] <= a[2])

Crosses(p, a, b) ==
  /\ (a[2] > p[2]) # (b[2] > p[2])
  /\ LET dy  == b[2] - a[2]
         lhs == (p[1] - a[1]) * dy
         rhs == (p[2] - a[2]) * (b[1] - a[1])
     IN  IF dy > 0 THEN lhs < rhs ELSE lhs > rhs

Contains(cs, p) ==
  LET ring  == ClosedRing(cs)
      edges == 1..(Len(ring) - 1)
  IN  /\ \A k \in edges : ~OnSegment(p, ring[k], ring[k + 1])
      /\ Cardinality({k \in edges : Crosses(p, ring[k], ring[k + 1])}) % 2 = 1

(***************************************************************************)
(* check_point, polygon pass (lines 103-110).                              *)
(***************************************************************************)
Matches(polys, lat, lon) ==
  {k \in 1..Len(polys) : Contains(polys[k].geometry.coords, <<lon, lat>>)}

Hit_Last(polys, matches) == polys[CHOOSE k \in matches : \A m \in matches : m <= k]

Hit(polys, matches) == polys[CHOOSE k \in matches : \A m \in matches : k <= m]

NoDetails == << >>

PolygonDetails(hit) ==
  [name |-> hit.name, description |-> hit.description,
   match_type |-> "Inside Polygon Coverage"]

PolygonPass(polys, lat, lon) ==
  IF polys # << >> /\ Matches(polys, lat, lon) # {}
  THEN [outcome |-> "return", covered |-> TRUE,
        details |-> <<PolygonDetails(Hit(polys, Matches(polys, lat, lon)))>>]
  ELSE [outcome |-> "next", covered |-> FALSE, details |-> NoDetails]

(***************************************************************************)
(* check_point, proximity pass (lines 112-130).  distances keeps the       *)
(* labels of self.points; idxmin() gives the label of the first minimum;   *)
(* iloc[] takes a position, and raises IndexError beyond the last row.     *)
(***************************************************************************)
Distances(pts, lat, lon) ==
  [k \in 1..Len(pts) |-> Distance2(pts[k].geometry.coords[1], lat, lon)]

Min(dist) == CHOOSE d \in {dist[k] : k \in DOMAIN dist} :
                \A k \in DOMAIN dist : d <= dist[k]

ArgMin(dist) == CHOOSE k \in DOMAIN dist :
                  /\ dist[k] = Min(dist)
                  /\ \A m \in DOMAIN dist : dist[m] = Min(dist) => k <= m

IdxMin(pts, dist) == pts[ArgMin(dist)].label

ProximityDetails(nearest, d2) ==
  [name |-> nearest.name, description |-> nearest.description,
   match_type |-> "Tower Proximity", distance_km |-> RoundKm(d2)]

ProximityPass(pts, lat, lon) ==
  LET distances   == Distances(pts, lat, lon)
      nearest_idx == IdxMin(pts, distances)
  IN  IF pts # << >> /\ \E k \in DOMAIN distances : Nearby(distances[k])
      THEN IF nearest_idx + 1 \in DOMAIN pts
           THEN [outcome |-> "return", covered |-> TRUE,
                 details |-> <<ProximityDetails(pts[nearest_idx + 1], Min(distances))>>]
           ELSE [outcome |-> "IndexError", covered |-> FALSE, details |-> NoDetails]
      ELSE [outcome |-> "return", covered |-> FALSE, details |-> NoDetails]

check_point_ProximityFirst(polys, pts, lat, lon) ==
  IF ProximityPass(pts, lat, lon).covered THEN ProximityPass(pts, lat, lon)
  ELSE IF PolygonPass(polys, lat, lon).outcome = "return"
       THEN PolygonPass(polys, lat, lon)
       ELSE ProximityPass(pts, lat, lon)

check_point(polys, pts, lat, lon) ==
  IF PolygonPass(polys, lat, lon).outcome = "return"
  THEN PolygonPass(polys, lat, lon)
  ELSE ProximityPass(pts, lat, lon)

(***************************************************************************)
(* What check_point leaves in self.points: lines 113-128 only read it      *)
(* (to_crs and the mask give new objects).                                 *)
(***************************************************************************)
SelfPoints_KeepNearby(pts, lat, lon) ==
  SelectSeq(pts, LAMBDA r : Nearby(Distance2(r.geometry.coords[1], lat, lon)))

SelfPoints(pts, lat, lon) == pts

(***************************************************************************)
(* HTTP layer.  A field of CoordsRequest (lines 161-164) is None, a number *)
(* or a string; address is << >> for None.  A response is the status, the  *)
(* detail of the error and, for 200, the CoverageResponse.                 *)
(***************************************************************************)
FNone      == [t |-> "none", num |-> 0, text |-> ""]
FNum(n)    == [t |-> "float", num |-> n, text |-> ""]
FStr(s)    == [t |-> "str", num |-> 0, text |-> s]

JsonBoth  == "{\"latitude\": 1, \"longitude\": \"3\"}"
JsonLatOnly == "{\"latitude\": 1}"
JsonEmpty == "{}"
JsonBroken == "{latitude}"

(***************************************************************************)
(* json.loads on the brace-delimited strings of the model: the dict, as    *)
(* [empty, latitude, longitude] with .get() giving None for a missing key. *)
(* A string outside the domain is not valid JSON.                          *)
(***************************************************************************)
JsonLoads ==
  [s \in {JsonBoth, JsonLatOnly, JsonEmpty} |->
     CASE s = JsonBoth -> [empty |-> FALSE, latitude |-> FNum(1), longitude |-> FStr("3")]
       [] s = JsonLatOnly -> [empty |-> FALSE, latitude |-> FNum(1), longitude |-> FNone]
       [] s = JsonEmpty -> [empty |-> TRUE, latitude |-> FNone, longitude |-> FNone]]

NoDict == [empty |-> TRUE, latitude |-> FNone, longitude |-> FNone]

(* parse_geo_string (lines 178-187); None and {} are both falsy at 193/197. *)
parse_geo_string(value) ==
  IF value.t = "str" /\ value.text \in DOMAIN JsonLoads
  THEN JsonLoads[value.text] ELSE NoDict

CanFloat(f) == f.t = "float" \/ (f.t = "str" /\ IsFloat(f.text))
Float(f)    == IF f.t = "float" THEN f.num ELSE FloatOf[f.text]

HttpError(status, detail) == [status |-> status, detail |-> detail, body |-> << >>]

Unhandled == HttpError(500, "Internal Server Error")

CoverageResponse(address, lat, lon, r) ==
  IF r.outcome = "return"
  THEN [status |-> 200, detail |-> "",
        body |-> <<[address |-> address, latitude |-> lat, longitude |-> lon,
                    in_coverage |-> r.covered, details |-> r.details]>>]
  ELSE Unhandled

(* geolocator (lines 144-147) is None when GoogleV3 cannot be built. *)
geolocator == apiKey

(***************************************************************************)
(* POST /check (lines 170-240).  geo is what geolocator.geocode gives for  *)
(* the address: "none", "raise" or a location.                             *)
(***************************************************************************)
check_coverage_json(req, geo) ==
  LET geo_from_lat == parse_geo_string(req.latitude)
      geo_from_lon == parse_geo_string(req.longitude)
      lat1 == IF ~geo_from_lat.empty THEN geo_from_lat.latitude ELSE req.latitude
      lon1 == IF ~geo_from_lat.empty THEN geo_from_lat.longitude ELSE req.longitude
      lat2 == IF ~geo_from_lon.empty THEN geo_from_lon.latitude ELSE lat1
      lon2 == IF ~geo_from_lon.empty THEN geo_from_lon.longitude ELSE lon1
  IN  IF ~checker THEN HttpError(500, "Coverage map not loaded.")
      ELSE IF lat2.t # "none" /\ lon2.t # "none"
      THEN IF CanFloat(lat2) /\ CanFloat(lon2)
           THEN CoverageResponse("Coordinates Only", Float(lat2), Float(lon2),
                                 check_point(polygons, points, Float(lat2), Float(lon2)))
           ELSE HttpError(400, "Latitude and Longitude must be numbers.")
      ELSE IF req.address # << >> /\ req.address[1] # ""
      THEN IF ~geolocator THEN HttpError(500, "Google Maps API Key missing.")
           ELSE IF geo.kind = "raise" THEN Unhandled
           ELSE IF geo.kind = "none" THEN HttpError(404, "Address not found.")
           ELSE CoverageResponse(geo.address, geo.latitude, geo.longitude,
                                 check_point(polygons, points, geo.latitude, geo.longitude))
      ELSE HttpError(400, "Send latitude+longitude OR address.")

(***************************************************************************)
(* GET /check-get (lines 246-255): checker.check_point is called without   *)
(* a test of checker; on None the AttributeError is not handled.           *)
(***************************************************************************)
check_get(lat, lon) ==
  IF ~checker THEN Unhandled
  ELSE CoverageResponse("Coordinates Only", lat, lon,
                        check_point(polygons, points, lat, lon))

(***************************************************************************)
(* Inputs of the model: query points <<lat, lon>>, request bodies and      *)
(* geocoder answers.                                                       *)
(***************************************************************************)
QueryPoints ==
  {<<1, 0>>, <<1, 1>>, <<1, 2>>, <<1, 3>>, <<1, 5>>, <<3, 0>>, <<4, 0>>}

Body(lat, lon, address) ==
  [endpoint |-> "POST /check", latitude |-> lat, longitude |-> lon, address |-> address]

PostBodies ==
  {Body(FNum(q[1]), FNum(q[2]), << >>) : q \in QueryPoints}
  \cup {Body(FStr("1"), FStr("5"), << >>), Body(FStr("abc"), FNum(3), << >>),
        Body(FStr(JsonBoth), FNone, << >>), Body(FNum(4), FStr(JsonBoth), << >>),
        Body(FStr(JsonLatOnly), FNum(3), <<"12 Main Rd">>),
        Body(FStr(JsonEmpty), FNone, << >>), Body(FStr(JsonBroken), FNum(3), << >>),
        Body(FNone, FNone, <<"12 Main Rd">>), Body(FNum(1), FNone, <<"">>),
        Body(FNone, FNone, << >>)}

GetQueries ==
  {[endpoint |-> "GET /check-get", latitude |-> FNum(q[1]), longitude |-> FNum(q[2]),
    address |-> << >>] : q \in QueryPoints}

Geocodes ==
  {[kind |-> k, address |-> "", latitude |-> 0, longitude |-> 0] : k \in {"none", "raise"}}
  \cup {[kind |-> "location", address |-> "12 Main Rd, Town", latitude |-> 1, longitude |-> 3]}

(* geocode is called only on the address branch (line 227). *)
GeocodesFor(req) ==
  IF req.address # << >> /\ req.address[1] # "" THEN Geocodes
  ELSE {g \in Geocodes : g.kind = "none"}

NoRequest == [endpoint |-> "", latitude |-> FNone, longitude |-> FNone, address |-> << >>]
NoResponse == HttpError(0, "")

(***************************************************************************)
(* The handlers are coroutines without an await: each runs to completion   *)
(* on the event loop.  request / response hold the last exchange.          *)
(***************************************************************************)
PostCheck ==
  /\ pc = "serving"
  /\ \E req \in PostBodies : \E geo \in GeocodesFor(req) :
       /\ request' = req
       /\ response' = check_coverage_json(req, geo)
       /\ points' = IF checker /\ response'.status = 200
                    THEN SelfPoints(points, response'.body[1].latitude,
                                    response'.body[1].longitude)
                    ELSE points
  /\ UNCHANGED <<archive, apiKey, pc, i, features, tmpDir, checker, polygons, calls>>

CheckGet ==
  /\ pc = "serving"
  /\ \E req \in GetQueries :
       /\ request' = req
       /\ response' = check_get(req.latitude.num, req.longitude.num)
       /\ points' = IF checker
                    THEN SelfPoints(points, req.latitude.num, req.longitude.num)
                    ELSE points
  /\ UNCHANGED <<archive, apiKey, pc, i, features, tmpDir, checker, polygons, calls>>

NoCalls == [c \in 1..MaxCalls |-> [pc |-> "idle", lat |-> 0, lon |-> 0,
                                    result |-> [outcome |-> "none", covered |-> FALSE,
                                                details |-> NoDetails]]]

Init ==
  /\ archive \in Archives(PlacemarkPool, MaxPlacemarks)
  /\ apiKey \in BOOLEAN
  /\ pc = "start"
  /\ i = 0
  /\ features = << >>
  /\ tmpDir = FALSE
  /\ checker = FALSE
  /\ polygons = << >>
  /\ points = << >>
  /\ request = NoRequest
  /\ response = NoResponse
  /\ calls = NoCalls

Startup == LoadStart \/ OpenZip \/ ExtractKml \/ ParseNext \/ FinishLoad

Next == Startup \/ PostCheck \/ CheckGet

Spec == Init /\ [][Next]_vars

(***************************************************************************)
(* check_point called concurrently by MaxCalls threads on the built index: *)
(* a call is at the polygon pass ("polygons"), at the proximity pass       *)
(* ("points") or has its result ("done").                                  *)
(***************************************************************************)
ConcPool == {Tower1, Tower2, ZoneA, ZoneB}

ConcQueries == {<<1, 1>>, <<1, 2>>, <<1, 5>>, <<4, 0>>}

Call(c) ==
  /\ pc = "serving"
  /\ checker
  /\ calls[c].pc = "idle"
  /\ \E q \in ConcQueries :
       calls' = [calls EXCEPT ![c] = [@ EXCEPT !.pc = "polygons", !.lat = q[1], !.lon = q[2]]]
  /\ UNCHANGED <<archive, apiKey, pc, i, features, tmpDir, checker, polygons,
                 points, request, response>>

PolygonStep(c) ==
  /\ calls[c].pc = "polygons"
  /\ LET r == PolygonPass(polygons, calls[c].lat, calls[c].lon)
     IN  calls' = [calls EXCEPT ![c] =
                     IF r.outcome = "return"
                     THEN [@ EXCEPT !.pc = "done", !.result = r]
                     ELSE [@ EXCEPT !.pc = "points"]]
  /\ UNCHANGED <<archive, apiKey, pc, i, features, tmpDir, checker, polygons,
                 points, request, response>>

ProximityStep(c) ==
  /\ calls[c].pc = "points"
  /\ calls' = [calls EXCEPT ![c] =
                 [@ EXCEPT !.pc = "done",
                           !.result = ProximityPass(points, calls[c].lat, calls[c].lon)]]
  /\ points' = SelfPoints(points, calls[c].lat, calls[c].lon)
  /\ UNCHANGED <<archive, apiKey, pc, i, features, tmpDir, checker, polygons,
                 request, response>>

Return(c) ==
  /\ calls[c].pc = "done"
  /\ calls' = [calls EXCEPT ![c] = NoCalls[c]]
  /\ UNCHANGED <<archive, apiKey, pc, i, features, tmpDir, checker, polygons,
                 points, request, response>>

InitConc ==
  /\ archive \in Archives(ConcPool, MaxPlacemarks)
  /\ apiKey = TRUE
  /\ pc = "start"
  /\ i = 0
  /\ features = << >>
  /\ tmpDir = FALSE
  /\ checker = FALSE
  /\ polygons = << >>
  /\ points = << >>
  /\ request = NoRequest
  /\ response = NoResponse
  /\ calls = NoCalls

Threads == \E c \in 1..MaxCalls : Call(c) \/ PolygonStep(c) \/ ProximityStep(c) \/ Return(c)

NextConc == Startup \/ Threads

SpecConc == InitConc /\ [][NextConc]_vars

(***************************************************************************)
(* Reading the last exchange: the coordinates check_point was called with  *)
(* and what it gave.  Both handlers pass the coordinates of the response;  *)
(* GET /check-get passes those of its query string.                        *)
(***************************************************************************)
Queried ==
  /\ pc = "serving"
  /\ checker
  /\ response.status = 200 \/ request.endpoint = "GET /check-get"

QLat == IF response.status = 200 THEN response.body[1].latitude ELSE request.latitude.num
QLon == IF response.status = 200 THEN response.body[1].longitude ELSE request.longitude.num

Returned == response.status = 200
Covered  == Returned /\ response.body[1].in_coverage
Details  == response.body[1].details[1]

InsideSome == Matches(polygons, QLat, QLon) # {}
SomeNearby ==
  \E k \in DOMAIN points : Nearby(Distance2(points[k].geometry.coords[1], QLat, QLon))

(* The stored point at the minimum projected distance, the first one on a tie. *)
NearestStored ==
  LET d(k) == Distance2(points[k].geometry.coords[1], QLat, QLon)
  IN  points[CHOOSE k \in DOMAIN points :
               /\ \A m \in DOMAIN points : d(k) <= d(m)
               /\ \A m \in DOMAIN points : m < k => d(k) < d(m)]

(* C1: a query point inside at least one stored polygon is answered        *)
(* covered with match type 'Inside Polygon Coverage' and without a         *)
(* distance_km, also when a stored point is within the radius; a 'Tower    *)
(* Proximity' answer is given only when no polygon contains the point.     *)
C1_PolygonPrecedence ==
  (Queried /\ InsideSome) =>
    /\ Covered
    /\ Details.match_type = "Inside Polygon Coverage"
    /\ "distance_km" \notin DOMAIN Details

C1_Witness ==
  /\ Queried /\ InsideSome /\ SomeNearby
  /\ Covered /\ Details.match_type = "Inside Polygon Coverage"

(* C2: a 'Tower Proximity' answer reports the stored point at the minimum  *)
(* projected distance from the query point, the first one in stored order  *)
(* on a tie, whatever the order of polygons and points in the archive.     *)
C2_NearestReported ==
  (Queried /\ Covered /\ Details.match_type = "Tower Proximity") =>
    /\ Details.name = NearestStored.name
    /\ Details.description = NearestStored.description

(* C3: outside every stored polygon the answer is covered with 'Tower      *)
(* Proximity' exactly when some stored point is at most the radius away    *)
(* (boundary included), and (False, None) otherwise, also without points.  *)
C3_ProximityIffWithinRadius ==
  (Queried /\ ~InsideSome) =>
    /\ Returned
    /\ SomeNearby => (Covered /\ Details.match_type = "Tower Proximity")
    /\ ~SomeNearby => (~Covered /\ response.body[1].details = NoDetails)

(* C4: when several stored polygons contain the query point, the record    *)
(* reported is the first of them in stored order.                          *)
C4_FirstPolygonWins ==
  (Queried /\ Cardinality(Matches(polygons, QLat, QLon)) >= 2) =>
    /\ Covered
    /\ \E k \in Matches(polygons, QLat, QLon) :
         /\ \A m \in Matches(polygons, QLat, QLon) : k <= m
         /\ Details.name = polygons[k].name
         /\ Details.description = polygons[k].description

C4_Witness ==
  /\ Queried /\ Cardinality(Matches(polygons, QLat, QLon)) >= 2
  /\ polygons[1].name = "ZoneB"
  /\ Covered /\ Details.name = "ZoneB"

(* C5: on a built index check_point returns a result for every numeric     *)
(* (lat, lon); it never raises.                                            *)
C5_QueryNeverRaises == Queried => Returned

(* C6: when the load failed at start-up the service serves with checker =  *)
(* None and answers every query, on POST /check and on GET /check-get,     *)
(* with 'Coverage map not loaded.'.                                        *)
C6_UnavailableOnEveryEndpoint ==
  (pc = "serving" /\ ~checker /\ request # NoRequest) =>
    response = HttpError(500, "Coverage map not loaded.")

(* The placemarks of a document whose try body gives a geometry, in order. *)
ParsedFeatures(doc) ==
  LET ok == SelectSeq(doc, LAMBDA p : ParsePlacemark(p).kind = "feature")
  IN  [k \in 1..Len(ok) |-> ParsePlacemark(ok[k]).feature]

(* C7: an exception while parsing one placemark skips that placemark only; *)
(* the load completes and holds exactly the placemarks that parsed to a    *)
(* geometry, in document order.                                            *)
C7_BadPlacemarkSkippedAlone ==
  (pc = "serving" /\ archive.kind = "ok") =>
    /\ checker
    /\ features = ParsedFeatures(archive.doc)
    /\ polygons \o points # << >> <=> features # << >>

C7_Witness ==
  /\ pc = "serving" /\ checker
  /\ \E a, b \in DOMAIN archive.doc :
       /\ a < b
       /\ ParsePlacemark(archive.doc[a]).kind = "raise"
       /\ ParsePlacemark(archive.doc[b]).kind = "feature"
       /\ \E f \in DOMAIN features : features[f] = ParsePlacemark(archive.doc[b]).feature

(* The coordinates of the well-formed tuples of a coordinate string, in order. *)
WellFormed(coord_str) ==
  LET ok == SelectSeq(coord_str, LAMBDA parts :
                        Len(parts) >= 2 /\ IsFloat(parts[1]) /\ IsFloat(parts[2]))
  IN  [k \in 1..Len(ok) |-> <<FloatOf[ok[k][1]], FloatOf[ok[k][2]]>>]

(* C8: a tuple with fewer than two numeric components is dropped from the  *)
(* coordinate list and the well-formed tuples of the string are kept in    *)
(* order, so a polygon with three well-formed tuples is loaded.            *)
C8_BadTuplesDroppedAlone ==
  (pc = "serving" /\ archive.kind = "ok") =>
    \A k \in DOMAIN archive.doc :
      (archive.doc[k].polygon # << >> /\ Len(WellFormed(archive.doc[k].polygon[1])) >= 3) =>
        \E f \in DOMAIN features :
          /\ features[f].name = archive.doc[k].name[1]
          /\ features[f].geometry = Polygon(WellFormed(archive.doc[k].polygon[1]))

(* C9: once the load has finished the temporary extraction directory does  *)
(* not exist, on return with features, on the early return without a .kml  *)
(* member and on an exception.                                             *)
C9_TempDirRemoved == pc = "serving" => ~tmpDir

C9_Witness == pc = "serving" /\ ~checker /\ archive.kind = "badmember" /\ ~tmpDir

(* Every finished call has the result of check_point on the index as it is. *)
RunAlone ==
  \A c \in 1..MaxCalls :
    calls[c].pc = "done" =>
      /\ calls[c].result = check_point(polygons, points, calls[c].lat, calls[c].lon)
      /\ \A d \in 1..MaxCalls :
           (calls[d].pc = "done" /\ calls[d].lat = calls[c].lat /\ calls[d].lon = calls[c].lon)
             => calls[d].result = calls[c].result

(* C10: check_point leaves polygons and points as they are, so under every *)
(* interleaving of concurrent calls each call has the result of the call   *)
(* run alone, and calls with the same (lat, lon) have the same result.     *)
C10_ReadOnlyDeterministic ==
  /\ []RunAlone
  /\ [][pc = "serving" => (polygons' = polygons /\ points' = points)]_vars

C10_Witness ==
  /\ calls[1].pc = "points" /\ calls[2].pc = "done"
  /\ calls[1].lat = calls[2].lat /\ calls[1].lon = calls[2].lon
  /\ calls[2].result.covered
  /\ calls[2].result.details[1].match_type = "Tower Proximity"

====
